---------------------------- MODULE Spec2Model ----------------------------
(***************************************************************************)
(* A model of the two analysis components of wa-state-tracker:             *)
(*   - scripts/score_bills.py        (score_bill, score_all_bills)         *)
(*   - scripts/find_related_bills.py (find_related_bills and helpers)      *)
(* together with the part of scripts/fetch_bills.py that carries derived   *)
(* fields of a stored bill over to the refreshed record.                   *)
(*                                                                         *)
(* Text is modelled as TLA+ strings, character by character: lower-casing, *)
(* the regular expressions of the rule tables, tokenisation and the bill   *)
(* number parser are computed on the characters as the Python code         *)
(* computes them.  A bill is a record whose domain is the set of keys the  *)
(* Python dict holds.                                                      *)
(***************************************************************************)
EXTENDS Integers, Sequences, FiniteSets, TLC

VARIABLES
  file_exists,   \* _data/bills.json exists
  stored,        \* the content of _data/bills.json: a sequence of bills
  clusters_file, \* the content of _data/bill_clusters.json
  pc,            \* position of the running script, "idle" between runs
  hashseed,      \* string-hash seed of the running interpreter
  bills,         \* the list loaded by the running script
  idx,           \* index of the next bill the current loop handles
  by_number,     \* find_related_bills: (prefix, number) -> position in bills
  by_topic,      \* find_related_bills: topic -> positions in bills
  clusters,      \* find_related_bills: topic -> set of bill numbers
  outcome,       \* how the last run ended, "running" during a run
  fetches        \* number of refreshes of the stored collection so far

vars == <<file_exists, stored, clusters_file, pc, hashseed, bills, idx,
          by_number, by_topic, clusters, outcome, fetches>>

---------------------------------------------------------------------------
(* Characters and strings.                                                 *)

LOWER == "abcdefghijklmnopqrstuvwxyz"
UPPER == "ABCDEFGHIJKLMNOPQRSTUVWXYZ"
DIGITS == "0123456789"
\* the characters of bill numbers in code-point order
CODE_ORDER == " -.0123456789ABCDEFGHIJKLMNOPQRSTUVWXYZ_abcdefghijklmnopqrstuvwxyz"

Ch(s, i) == SubSeq(s, i, i)

Chars(s) == {Ch(s, i) : i \in 1..Len(s)}

LowerChars == Chars(LOWER)
UpperChars == Chars(UPPER)
DigitChars == Chars(DIGITS)
\* \w of the re module, on the ASCII characters
WordChars == LowerChars \cup UpperChars \cup DigitChars \cup {"_"}
\* \s of the re module
SpaceChars == {" ", "\t", "\n", "\r", "\f"}

IndexOf(s, c) == CHOOSE i \in 1..Len(s) : Ch(s, i) = c

Min(a, b) == IF a < b THEN a ELSE b

\* str.lower()
RECURSIVE lower(_)
lower(s) ==
  IF s = "" THEN ""
  ELSE LET c == Head(s)
       IN (IF c \in UpperChars THEN Ch(LOWER, IndexOf(UPPER, c)) ELSE c)
            \o lower(Tail(s))

\* str.upper()
RECURSIVE upper(_)
upper(s) ==
  IF s = "" THEN ""
  ELSE LET c == Head(s)
       IN (IF c \in LowerChars THEN Ch(UPPER, IndexOf(LOWER, c)) ELSE c)
            \o upper(Tail(s))

\* str.find(sub) + 1: the first position at which sub occurs in s, 0 if none
find(s, sub) ==
  LET at == {i \in 1..(Len(s) - Len(sub) + 1) : SubSeq(s, i, i + Len(sub) - 1) = sub}
  IN IF at = {} THEN 0 ELSE CHOOSE i \in at : \A j \in at : i <= j

\* sub in s
Contains(s, sub) == find(s, sub) # 0

\* str.split(sep)
RECURSIVE split(_, _)
split(s, sep) ==
  LET i == find(s, sep)
  IN IF i = 0 THEN <<s>>
     ELSE <<SubSeq(s, 1, i - 1)>> \o split(SubSeq(s, i + Len(sep), Len(s)), sep)

Range(f) == {f[i] : i \in DOMAIN f}

---------------------------------------------------------------------------
(* Regular expressions of the re module, as syntax trees.  Ends(r, t, S)   *)
(* is the set of positions at which a match of r that starts at a position *)
(* of S can end; a position p lies between character p and character p+1   *)
(* of t.                                                                   *)

Lit(s) == [k |-> "lit", s |-> s]
Bnd == [k |-> "bnd"]
Alt(rs) == [k |-> "alt", rs |-> rs]
Cat(rs) == [k |-> "cat", rs |-> rs]
Rep(c, lo, hi) == [k |-> "rep", c |-> c, lo |-> lo, hi |-> hi, inf |-> FALSE]
RepInf(c, lo) == [k |-> "rep", c |-> c, lo |-> lo, hi |-> lo, inf |-> TRUE]

\* membership of character ch in the class c: ".", \d, \s, [A-Z], [a-z] or a
\* literal
InClass(ch, c) ==
  CASE c = "any" -> ch # "\n"
    [] c = "digit" -> ch \in DigitChars
    [] c = "space" -> ch \in SpaceChars
    [] c = "upper" -> ch \in UpperChars
    [] c = "lower" -> ch \in LowerChars
    [] OTHER -> ch = c

\* the number of characters of class c that follow position p
Run(t, p, c) ==
  CHOOSE n \in 0..(Len(t) - p) :
    /\ \A j \in 1..n : InClass(Ch(t, p + j), c)
    /\ (p + n = Len(t) \/ ~InClass(Ch(t, p + n + 1), c))

IsWordAt(t, i) == i >= 1 /\ i <= Len(t) /\ Ch(t, i) \in WordChars

\* \b
AtBoundary(t, p) == IsWordAt(t, p) # IsWordAt(t, p + 1)

RECURSIVE Ends(_, _, _)
RECURSIVE CatEnds(_, _, _, _)
Ends(r, t, S) ==
  CASE r.k = "lit" ->
         {p + Len(r.s) : p \in {q \in S : /\ q + Len(r.s) <= Len(t)
                                          /\ SubSeq(t, q + 1, q + Len(r.s)) = r.s}}
    [] r.k = "bnd" -> {p \in S : AtBoundary(t, p)}
    [] r.k = "alt" -> UNION {Ends(r.rs[i], t, S) : i \in DOMAIN r.rs}
    [] r.k = "cat" -> CatEnds(r.rs, 1, t, S)
    [] r.k = "rep" ->
         UNION {LET run == Run(t, p, r.c)
                    top == IF r.inf THEN run ELSE Min(r.hi, run)
                IN {p + n : n \in r.lo..top} : p \in S}

CatEnds(rs, i, t, S) ==
  IF i > Len(rs) \/ S = {} THEN S
  ELSE CatEnds(rs, i + 1, t, Ends(rs[i], t, S))

\* re.search(pattern, text): a match starting anywhere
search(r, t) == Ends(r, t, 0..Len(t)) # {}

---------------------------------------------------------------------------
(* The rule tables of score_bills.py.  A rule holds the pattern as written *)
(* in the source, its syntax tree and its weight; the tables keep the      *)
(* order of the dict literals.                                             *)

Rule(pattern, re, weight) == [pattern |-> pattern, re |-> re, weight |-> weight]

RED_FLAGS ==
  <<
    Rule("\\b(ban|prohibit|restrict|forbid|criminalize|penalize|mandate|require|compel|force)\\b",
         Cat(<<Bnd, Alt(<<Lit("ban"), Lit("prohibit"), Lit("restrict"), Lit("forbid"),
           Lit("criminalize"), Lit("penalize"), Lit("mandate"), Lit("require"), Lit("compel"),
           Lit("force")>>), Bnd>>),
         3),
    Rule("\\b(surveillance|monitor|track|database|registry|registration)\\b",
         Cat(<<Bnd, Alt(<<Lit("surveillance"), Lit("monitor"), Lit("track"), Lit("database"),
           Lit("registry"), Lit("registration")>>), Bnd>>),
         3),
    Rule("\\b(firearm|gun|weapon|ammunition)\\b.*\\b(restrict|ban|prohibit|regulate|limit)",
         Cat(<<Bnd, Alt(<<Lit("firearm"), Lit("gun"), Lit("weapon"), Lit("ammunition")>>), Bnd,
           RepInf("any", 0), Bnd, Alt(<<Lit("restrict"), Lit("ban"), Lit("prohibit"),
           Lit("regulate"), Lit("limit")>>)>>),
         4),
    Rule("\\b(speech|expression|protest)\\b.*\\b(restrict|limit|regulate)",
         Cat(<<Bnd, Alt(<<Lit("speech"), Lit("expression"), Lit("protest")>>), Bnd,
           RepInf("any", 0), Bnd, Alt(<<Lit("restrict"), Lit("limit"), Lit("regulate")>>)>>),
         4),
    Rule("\\b(emergency powers?|executive authority|governor.{0,20}authority)",
         Cat(<<Bnd, Alt(<<Cat(<<Lit("emergency power"), Rep("s", 0, 1)>>),
           Lit("executive authority"), Cat(<<Lit("governor"), Rep("any", 0, 20),
           Lit("authority")>>)>>)>>),
         3),
    Rule("\\b(tax increase|raise.{0,10}tax|new tax|additional tax|impose.{0,10}tax)",
         Cat(<<Bnd, Alt(<<Lit("tax increase"), Cat(<<Lit("raise"), Rep("any", 0, 10),
           Lit("tax")>>), Lit("new tax"), Lit("additional tax"), Cat(<<Lit("impose"),
           Rep("any", 0, 10), Lit("tax")>>)>>)>>),
         3),
    Rule("\\b(fee increase|new fee|additional fee|surcharge)",
         Cat(<<Bnd, Alt(<<Lit("fee increase"), Lit("new fee"), Lit("additional fee"),
           Lit("surcharge")>>)>>),
         2),
    Rule("\\b(bond|borrow|debt|deficit spending)",
         Cat(<<Bnd, Alt(<<Lit("bond"), Lit("borrow"), Lit("debt"),
           Lit("deficit spending")>>)>>),
         2),
    Rule("\\b(appropriat|spend|fund|allocat).{0,20}(\\d+\\s*(million|billion)|substantial)",
         Cat(<<Bnd, Alt(<<Lit("appropriat"), Lit("spend"), Lit("fund"), Lit("allocat")>>),
           Rep("any", 0, 20), Alt(<<Cat(<<RepInf("digit", 1), RepInf("space", 0),
           Alt(<<Lit("million"), Lit("billion")>>)>>), Lit("substantial")>>)>>),
         2),
    Rule("\\b(new (agency|department|bureau|commission|board|authority|office|program))",
         Cat(<<Bnd, Cat(<<Lit("new "), Alt(<<Lit("agency"), Lit("department"), Lit("bureau"),
           Lit("commission"), Lit("board"), Lit("authority"), Lit("office"),
           Lit("program")>>)>>)>>),
         3),
    Rule("\\b(creat|establish|implement).{0,20}(program|initiative|system|framework)",
         Cat(<<Bnd, Alt(<<Lit("creat"), Lit("establish"), Lit("implement")>>), Rep("any", 0,
           20), Alt(<<Lit("program"), Lit("initiative"), Lit("system"), Lit("framework")>>)>>),
         2),
    Rule("\\b(expand|increase|enhance).{0,20}(authority|power|jurisdiction|enforcement)",
         Cat(<<Bnd, Alt(<<Lit("expand"), Lit("increase"), Lit("enhance")>>), Rep("any", 0, 20),
           Alt(<<Lit("authority"), Lit("power"), Lit("jurisdiction"), Lit("enforcement")>>)>>),
         2),
    Rule("\\b(regulat|licensing|permit|certification).{0,10}(requirement|mandate|new)",
         Cat(<<Bnd, Alt(<<Lit("regulat"), Lit("licensing"), Lit("permit"),
           Lit("certification")>>), Rep("any", 0, 10), Alt(<<Lit("requirement"),
           Lit("mandate"), Lit("new")>>)>>),
         2),
    Rule("\\b(employer.{0,10}(must|shall|required)|business.{0,10}(must|shall|required))",
         Cat(<<Bnd, Alt(<<Cat(<<Lit("employer"), Rep("any", 0, 10), Alt(<<Lit("must"),
           Lit("shall"), Lit("required")>>)>>), Cat(<<Lit("business"), Rep("any", 0, 10),
           Alt(<<Lit("must"), Lit("shall"), Lit("required")>>)>>)>>)>>),
         2),
    Rule("\\b(landlord.{0,10}(must|shall|required)|property owner.{0,10}(must|shall))",
         Cat(<<Bnd, Alt(<<Cat(<<Lit("landlord"), Rep("any", 0, 10), Alt(<<Lit("must"),
           Lit("shall"), Lit("required")>>)>>), Cat(<<Lit("property owner"), Rep("any", 0, 10),
           Alt(<<Lit("must"), Lit("shall")>>)>>)>>)>>),
         2),
    Rule("\\b(insurance.{0,10}(mandate|require|coverage))",
         Cat(<<Bnd, Cat(<<Lit("insurance"), Rep("any", 0, 10), Alt(<<Lit("mandate"),
           Lit("require"), Lit("coverage")>>)>>)>>),
         2),
    Rule("\\b(minimum wage|wage.{0,10}increase)",
         Cat(<<Bnd, Alt(<<Lit("minimum wage"), Cat(<<Lit("wage"), Rep("any", 0, 10),
           Lit("increase")>>)>>)>>),
         2),
    Rule("\\b(zoning|land use).{0,10}(restrict|limit|regulate)",
         Cat(<<Bnd, Alt(<<Lit("zoning"), Lit("land use")>>), Rep("any", 0, 10),
           Alt(<<Lit("restrict"), Lit("limit"), Lit("regulate")>>)>>),
         2),
    Rule("\\b(carbon tax|emission.{0,10}(fee|tax|limit)|climate.{0,10}mandate)",
         Cat(<<Bnd, Alt(<<Lit("carbon tax"), Cat(<<Lit("emission"), Rep("any", 0, 10),
           Alt(<<Lit("fee"), Lit("tax"), Lit("limit")>>)>>), Cat(<<Lit("climate"), Rep("any",
           0, 10), Lit("mandate")>>)>>)>>),
         2),
    Rule("\\b(renewable.{0,10}(mandate|requirement)|clean energy.{0,10}standard)",
         Cat(<<Bnd, Alt(<<Cat(<<Lit("renewable"), Rep("any", 0, 10), Alt(<<Lit("mandate"),
           Lit("requirement")>>)>>), Cat(<<Lit("clean energy"), Rep("any", 0, 10),
           Lit("standard")>>)>>)>>),
         2),
    Rule("\\b(curriculum.{0,10}(mandate|require)|school.{0,10}(mandate|require))",
         Cat(<<Bnd, Alt(<<Cat(<<Lit("curriculum"), Rep("any", 0, 10), Alt(<<Lit("mandate"),
           Lit("require")>>)>>), Cat(<<Lit("school"), Rep("any", 0, 10), Alt(<<Lit("mandate"),
           Lit("require")>>)>>)>>)>>),
         2),
    Rule("\\b(dei|equity|inclusion).{0,10}(require|mandate|training)",
         Cat(<<Bnd, Alt(<<Lit("dei"), Lit("equity"), Lit("inclusion")>>), Rep("any", 0, 10),
           Alt(<<Lit("require"), Lit("mandate"), Lit("training")>>)>>),
         2)
  >>

ORANGE_FLAGS ==
  <<
    Rule("\\b(regulat|oversight|compliance|enforce)",
         Cat(<<Bnd, Alt(<<Lit("regulat"), Lit("oversight"), Lit("compliance"),
           Lit("enforce")>>)>>),
         1),
    Rule("\\b(license|permit|certificate|credential)",
         Cat(<<Bnd, Alt(<<Lit("license"), Lit("permit"), Lit("certificate"),
           Lit("credential")>>)>>),
         1),
    Rule("\\b(report|disclosure|transparency).{0,10}(require|mandate)",
         Cat(<<Bnd, Alt(<<Lit("report"), Lit("disclosure"), Lit("transparency")>>), Rep("any",
           0, 10), Alt(<<Lit("require"), Lit("mandate")>>)>>),
         1),
    Rule("\\b(study|task force|commission|committee|working group)",
         Cat(<<Bnd, Alt(<<Lit("study"), Lit("task force"), Lit("commission"), Lit("committee"),
           Lit("working group")>>)>>),
         1),
    Rule("\\b(grant|subsid|incentive|credit|rebate)",
         Cat(<<Bnd, Alt(<<Lit("grant"), Lit("subsid"), Lit("incentive"), Lit("credit"),
           Lit("rebate")>>)>>),
         1),
    Rule("\\b(fund|financ|appropriat)",
         Cat(<<Bnd, Alt(<<Lit("fund"), Lit("financ"), Lit("appropriat")>>)>>),
         1),
    Rule("\\b(agency|department|bureau|office|program)",
         Cat(<<Bnd, Alt(<<Lit("agency"), Lit("department"), Lit("bureau"), Lit("office"),
           Lit("program")>>)>>),
         1),
    Rule("\\b(state employ|public employ|government employ)",
         Cat(<<Bnd, Alt(<<Lit("state employ"), Lit("public employ"),
           Lit("government employ")>>)>>),
         1)
  >>

GREEN_FLAGS ==
  <<
    Rule("\\b(repeal|abolish|eliminate|remove).{0,20}(regulation|requirement|mandate|restriction|ban|prohibition)",
         Cat(<<Bnd, Alt(<<Lit("repeal"), Lit("abolish"), Lit("eliminate"), Lit("remove")>>),
           Rep("any", 0, 20), Alt(<<Lit("regulation"), Lit("requirement"), Lit("mandate"),
           Lit("restriction"), Lit("ban"), Lit("prohibition")>>)>>),
         -3),
    Rule("\\b(deregulat|reduce.{0,10}regulation|regulatory reform)",
         Cat(<<Bnd, Alt(<<Lit("deregulat"), Cat(<<Lit("reduce"), Rep("any", 0, 10),
           Lit("regulation")>>), Lit("regulatory reform")>>)>>),
         -3),
    Rule("\\b(protect|preserve|defend).{0,20}(right|liberty|freedom|property)",
         Cat(<<Bnd, Alt(<<Lit("protect"), Lit("preserve"), Lit("defend")>>), Rep("any", 0, 20),
           Alt(<<Lit("right"), Lit("liberty"), Lit("freedom"), Lit("property")>>)>>),
         -2),
    Rule("\\b(due process|constitutional right|civil libert)",
         Cat(<<Bnd, Alt(<<Lit("due process"), Lit("constitutional right"),
           Lit("civil libert")>>)>>),
         -2),
    Rule("\\b(tax (cut|reduction|relief|credit|deduction)|reduce.{0,10}tax|lower.{0,10}tax)",
         Cat(<<Bnd, Alt(<<Cat(<<Lit("tax "), Alt(<<Lit("cut"), Lit("reduction"), Lit("relief"),
           Lit("credit"), Lit("deduction")>>)>>), Cat(<<Lit("reduce"), Rep("any", 0, 10),
           Lit("tax")>>), Cat(<<Lit("lower"), Rep("any", 0, 10), Lit("tax")>>)>>)>>),
         -3),
    Rule("\\b(spending (cut|reduction|limit)|reduce.{0,10}spending|fiscal restraint)",
         Cat(<<Bnd, Alt(<<Cat(<<Lit("spending "), Alt(<<Lit("cut"), Lit("reduction"),
           Lit("limit")>>)>>), Cat(<<Lit("reduce"), Rep("any", 0, 10), Lit("spending")>>),
           Lit("fiscal restraint")>>)>>),
         -3),
    Rule("\\b(balanced budget|debt reduction|deficit reduction)",
         Cat(<<Bnd, Alt(<<Lit("balanced budget"), Lit("debt reduction"),
           Lit("deficit reduction")>>)>>),
         -2),
    Rule("\\b(sunset|expir|terminat).{0,20}(program|agency|tax)",
         Cat(<<Bnd, Alt(<<Lit("sunset"), Lit("expir"), Lit("terminat")>>), Rep("any", 0, 20),
           Alt(<<Lit("program"), Lit("agency"), Lit("tax")>>)>>),
         -2),
    Rule("\\b(eliminat|abolish|dissolve).{0,20}(agency|department|program|office)",
         Cat(<<Bnd, Alt(<<Lit("eliminat"), Lit("abolish"), Lit("dissolve")>>), Rep("any", 0,
           20), Alt(<<Lit("agency"), Lit("department"), Lit("program"), Lit("office")>>)>>),
         -3),
    Rule("\\b(privatiz|contract out|outsource)",
         Cat(<<Bnd, Alt(<<Lit("privatiz"), Lit("contract out"), Lit("outsource")>>)>>),
         -2),
    Rule("\\b(limit|restrict|reduce).{0,20}(government|state|authority|power)",
         Cat(<<Bnd, Alt(<<Lit("limit"), Lit("restrict"), Lit("reduce")>>), Rep("any", 0, 20),
           Alt(<<Lit("government"), Lit("state"), Lit("authority"), Lit("power")>>)>>),
         -2),
    Rule("\\b(audit|inspector general|accountability|oversight).{0,20}government",
         Cat(<<Bnd, Alt(<<Lit("audit"), Lit("inspector general"), Lit("accountability"),
           Lit("oversight")>>), Rep("any", 0, 20), Lit("government")>>),
         -1),
    Rule("\\b(public record|freedom of information|open meeting)",
         Cat(<<Bnd, Alt(<<Lit("public record"), Lit("freedom of information"),
           Lit("open meeting")>>)>>),
         -1),
    Rule("\\b(second amendment|right to bear|self.defense|concealed carry|constitutional carry)",
         Cat(<<Bnd, Alt(<<Lit("second amendment"), Lit("right to bear"), Cat(<<Lit("self"),
           Rep("any", 1, 1), Lit("defense")>>), Lit("concealed carry"),
           Lit("constitutional carry")>>)>>),
         -2),
    Rule("\\b(firearm|gun).{0,20}(right|freedom|protect)",
         Cat(<<Bnd, Alt(<<Lit("firearm"), Lit("gun")>>), Rep("any", 0, 20), Alt(<<Lit("right"),
           Lit("freedom"), Lit("protect")>>)>>),
         -2)
  >>


---------------------------------------------------------------------------
(* Bill records.  A bill is a function from the keys its dict holds to     *)
(* their values; None stands for Python's None (a JSON null).              *)

None == "<None>"

\* dict.get(key)
get(bill, key) == IF key \in DOMAIN bill THEN bill[key] ELSE None

\* dict.get(key, default)
get_or(bill, key, default) == IF key \in DOMAIN bill THEN bill[key] ELSE default

\* bill[key] = value
put(bill, key, value) ==
  [k \in DOMAIN bill \cup {key} |-> IF k = key THEN value ELSE bill[k]]

\* del bill[key]
del(bill, key) == [k \in DOMAIN bill \ {key} |-> bill[k]]

\* value or default, for a string or None
or_else(value, default) == IF value = None \/ value = "" THEN default ELSE value

\* value.lower(): None has no such method
AttributeError == "<AttributeError>"
str_lower(value) == IF value = None THEN AttributeError ELSE lower(value)

\* seq[:n]
take(seq, n) == SubSeq(seq, 1, Min(n, Len(seq)))

---------------------------------------------------------------------------
(* score_bills.py                                                          *)

\* the evidence label of a rule: the text between the first two \b of its
\* pattern
concern_label(pattern) ==
  IF Contains(pattern, "\\b") THEN split(pattern, "\\b")[2]
  ELSE take(pattern, 30)

\* every rule's label, in table order
ALL_LABELS ==
  LET all == RED_FLAGS \o ORANGE_FLAGS \o GREEN_FLAGS
  IN [i \in DOMAIN all |-> concern_label(all[i].pattern)]

\* hash(label) of an interpreter whose string hashes are seeded with seed:
\* distinct labels get distinct hashes, and the order of the hashes changes
\* with the seed
str_hash(label, seed) ==
  LET i == CHOOSE i \in DOMAIN ALL_LABELS : ALL_LABELS[i] = label
  IN (i * seed) % (Len(ALL_LABELS) + 2)

\* list(set(items)): the distinct items in hash order
RECURSIVE list_of_set(_, _)
list_of_set(S, seed) ==
  IF S = {} THEN <<>>
  ELSE LET first == CHOOSE x \in S :
                      \A y \in S : str_hash(x, seed) <= str_hash(y, seed)
       IN <<first>> \o list_of_set(S \ {first}, seed)

\* text_field with bill.get(key, "") in place of (bill.get(key) or ""): a
\* null field is lower-cased as it is
text_field_default(bill, key) == str_lower(get_or(bill, key, ""))

\* one text field of the bill, lower-cased
text_field(bill, key) == str_lower(or_else(get(bill, key), ""))

\* the baseline score
BASELINE == 1

\* the sum of the weights of a sequence of rules
RECURSIVE sum_weights(_)
sum_weights(rules) ==
  IF rules = <<>> THEN 0 ELSE Head(rules).weight + sum_weights(Tail(rules))

\* the evidence labels of a sequence of rules
labels(rules) == [i \in DOMAIN rules |-> concern_label(rules[i].pattern)]

\* tally with "score = BASELINE + weight" in place of "score += weight":
\* only the last matching rule of the table counts
tally_last(acc, hits, positive_only) ==
  LET recorded(rule) == positive_only => rule.weight > 0
  IN [score |-> IF hits = <<>> THEN acc.score
                ELSE BASELINE + hits[Len(hits)].weight,
      matched |-> acc.matched \o labels(SelectSeq(hits, recorded))]

\* tally with every matching rule counted as 1, whatever its weight
tally_count(acc, hits, positive_only) ==
  LET recorded(rule) == positive_only => rule.weight > 0
  IN [score |-> acc.score + Len(hits),
      matched |-> acc.matched \o labels(SelectSeq(hits, recorded))]

\* the effect of the matching rules of one table, hits, on the running score
\* and the running list of labels; the loop over ORANGE_FLAGS records a
\* label only for a positive weight
tally(acc, hits, positive_only) ==
  LET recorded(rule) == positive_only => rule.weight > 0
  IN [score |-> acc.score + sum_weights(hits),
      matched |-> acc.matched \o labels(SelectSeq(hits, recorded))]

\* one "for pattern, weight in FLAGS.items()" loop: every rule of the table
\* is tried, in table order, and each rule that matches adds its weight and
\* its label
scan_flags(flags, text, acc, positive_only) ==
  LET hit(rule) == search(rule.re, text)
  IN tally(acc, SelectSeq(flags, hit), positive_only)

\* lines 151-155: the loop over GREEN_FLAGS goes on with the score the two
\* negative tables left and collects the positives
scan_green(text, negative) ==
  LET result(positive) == [score |-> positive.score,
                           concerns |-> negative.matched,
                           positives |-> positive.matched]
  IN result(scan_flags(GREEN_FLAGS, text,
                       [score |-> negative.score, matched |-> <<>>], FALSE))

\* scan_tables with the loop over GREEN_FLAGS skipped once a rule of
\* RED_FLAGS has matched
scan_tables_short(text) ==
  LET severe == scan_flags(RED_FLAGS, text, [score |-> BASELINE, matched |-> <<>>], FALSE)
      result(negative) ==
        IF severe.score > BASELINE
        THEN [score |-> negative.score, concerns |-> negative.matched,
              positives |-> <<>>]
        ELSE scan_green(text, negative)
  IN result(scan_flags(ORANGE_FLAGS, text, severe, TRUE))

\* lines 132-155: the three loops, from the baseline score
scan_tables(text) ==
  scan_green(text,
    scan_flags(ORANGE_FLAGS, text,
      scan_flags(RED_FLAGS, text, [score |-> BASELINE, matched |-> <<>>], FALSE),
      TRUE))

\* threat with every threshold compared strictly
threat_strict(score) ==
  IF score > 6
  THEN [score |-> score, level |-> "critical", label |-> "Critical Threat"]
  ELSE IF score > 3
  THEN [score |-> score, level |-> "high", label |-> "High Threat"]
  ELSE IF score > 1
  THEN [score |-> score, level |-> "moderate", label |-> "Moderate Concern"]
  ELSE IF score > -2
  THEN [score |-> score, level |-> "low", label |-> "Low Concern"]
  ELSE [score |-> score, level |-> "beneficial", label |-> "Potentially Beneficial"]

\* lines 157-172: the threshold ladder
threat(score) ==
  IF score >= 6
  THEN [score |-> score, level |-> "critical", label |-> "Critical Threat"]
  ELSE IF score >= 3
  THEN [score |-> score, level |-> "high", label |-> "High Threat"]
  ELSE IF score >= 1
  THEN [score |-> score, level |-> "moderate", label |-> "Moderate Concern"]
  ELSE IF score >= -2
  THEN [score |-> score, level |-> "low", label |-> "Low Concern"]
  ELSE [score |-> score, level |-> "beneficial", label |-> "Potentially Beneficial"]

\* unknown_override applied only when no rule moved the score
unknown_override_unmatched(title, description, scored) ==
  IF title = "" /\ description = "" /\ scored.score = BASELINE
  THEN [score |-> 0, level |-> "unknown", label |-> "Insufficient Data"]
  ELSE scored

\* lines 174-178: "if not title and not description"
unknown_override(title, description, scored) ==
  IF title = "" /\ description = ""
  THEN [score |-> 0, level |-> "unknown", label |-> "Insufficient Data"]
  ELSE scored

\* lines 186-189: "if matched: bill[key] = list(set(matched))[:3]"
add_evidence(bill, key, matched, seed) ==
  IF matched # <<>>
  THEN put(bill, key, take(list_of_set(Range(matched), seed), 3))
  ELSE bill

\* annotate building a new record of the bill's number, its title and the
\* fields written, instead of writing to the bill
annotate_fresh(bill, final, concerns, positives, seed) ==
  add_evidence(
    add_evidence(
      put(put(put([k \in DOMAIN bill \cap {"bill_number", "title"} |-> bill[k]],
                  "threat_score", final.score),
              "threat_level", final.level),
          "threat_label", final.label),
      "concerns", concerns, seed),
    "positives", positives, seed)

\* lines 180-189: the fields written to the bill
annotate(bill, final, concerns, positives, seed) ==
  add_evidence(
    add_evidence(
      put(put(put(bill, "threat_score", final.score),
              "threat_level", final.level),
          "threat_label", final.label),
      "concerns", concerns, seed),
    "positives", positives, seed)

\* rate with the unknown override emptying the evidence lists too
rate_cleared(bill, title, description, found, seed) ==
  IF title = "" /\ description = ""
  THEN annotate(bill, unknown_override(title, description, threat(found.score)),
                <<>>, <<>>, seed)
  ELSE annotate(bill, unknown_override(title, description, threat(found.score)),
                found.concerns, found.positives, seed)

\* lines 157-189, given what the three loops found
rate(bill, title, description, found, seed) ==
  annotate(bill, unknown_override(title, description, threat(found.score)),
           found.concerns, found.positives, seed)

\* lines 129-189, given the three lower-cased text fields
score_text(bill, title, description, last_action, seed) ==
  IF AttributeError \in {title, description, last_action}
  THEN [raised |-> AttributeError]
  ELSE rate(bill, title, description,
            scan_tables(title \o " " \o description \o " " \o last_action), seed)

\* score_bill(bill) in an interpreter with the given hash seed: the bill as
\* the call leaves it, or [raised |-> ...] when the call raises
score_bill(bill, seed) ==
  score_text(bill, text_field(bill, "title"), text_field(bill, "description"),
             text_field(bill, "last_action"), seed)

raised(result) == "raised" \in DOMAIN result

---------------------------------------------------------------------------
(* find_related_bills.py: the helpers                                      *)

TOPIC_KEYWORDS ==
  << [topic |-> "tax",
      keywords |-> <<"tax", "levy", "excise", "revenue">>],
     [topic |-> "health",
      keywords |-> <<"health", "medical", "hospital", "insurance", "medicare", "medicaid">>],
     [topic |-> "education",
      keywords |-> <<"education", "school", "student", "teacher", "university", "college">>],
     [topic |-> "housing",
      keywords |-> <<"housing", "rent", "landlord", "tenant", "homeless", "affordable">>],
     [topic |-> "environment",
      keywords |-> <<"environment", "climate", "emission", "pollution", "clean energy">>],
     [topic |-> "labor",
      keywords |-> <<"labor", "worker", "wage", "employment", "union">>],
     [topic |-> "public safety",
      keywords |-> <<"police", "firearm", "gun", "crime", "prison", "jail">>],
     [topic |-> "transportation",
      keywords |-> <<"transportation", "highway", "transit", "traffic", "vehicle">>] >>

\* the rank of ord(c) among the characters of bill numbers
ord(c) == IndexOf(CODE_ORDER, c)

\* a < b for strings: by code points, a proper prefix first
RECURSIVE str_lt(_, _)
str_lt(a, b) ==
  IF b = "" THEN FALSE
  ELSE IF a = "" THEN TRUE
  ELSE IF Head(a) # Head(b) THEN ord(Head(a)) < ord(Head(b))
  ELSE str_lt(Tail(a), Tail(b))

\* sorted(list(S)) for a set of strings
RECURSIVE sorted(_)
sorted(S) ==
  IF S = {} THEN <<>>
  ELSE LET least == CHOOSE x \in S : \A y \in S \ {x} : str_lt(x, y)
       IN <<least>> \o sorted(S \ {least})

\* int(digits)
RECURSIVE int(_)
int(digits) ==
  IF digits = "" THEN 0
  ELSE 10 * int(SubSeq(digits, 1, Len(digits) - 1))
         + (IndexOf(DIGITS, Ch(digits, Len(digits))) - 1)

\* extract_bill_number: re.match(r'([A-Z]+)\s*(\d+)', bill_number.upper());
\* <<prefix, number>>, <<None, None>> without a match, and AttributeError in
\* both places when bill_number is None and the call raises
extract_bill_number(bill_number) ==
  IF bill_number = None THEN <<AttributeError, AttributeError>>
  ELSE LET u == upper(bill_number)
           letters == Run(u, 0, "upper")
           spaces == Run(u, letters, "space")
           digits == Run(u, letters + spaces, "digit")
       IN IF letters >= 1 /\ digits >= 1
          THEN <<SubSeq(u, 1, letters),
                 int(SubSeq(u, letters + spaces + 1, letters + spaces + digits))>>
          ELSE <<None, None>>

stopwords ==
  {"the", "a", "an", "and", "or", "but", "in", "on", "at", "to", "for",
   "of", "with", "by", "from", "as", "is", "was", "are", "were", "been",
   "be", "have", "has", "had", "do", "does", "did", "will", "would",
   "could", "should", "may", "might", "must", "shall", "concerning",
   "relating", "regarding", "making", "providing", "establishing"}

\* re.findall(r'\b[a-z]{3,}\b', t): the runs of three or more lower-case
\* letters that have no word character on either side
findall_words(t) ==
  LET starts == {i \in 1..Len(t) : Ch(t, i) \in LowerChars /\ ~IsWordAt(t, i - 1)}
  IN {SubSeq(t, i, i - 1 + Run(t, i - 1, "lower")) :
        i \in {s \in starts : LET n == Run(t, s - 1, "lower")
                              IN n >= 3 /\ ~IsWordAt(t, s + n)}}

\* get_words(text); {AttributeError} when text is None and the call raises
get_words(text) ==
  IF text = None THEN {AttributeError}
  ELSE findall_words(lower(text)) \ stopwords

\* word_overlap: the ratio intersection / union as <<numerator, denominator>>
word_overlap(words1, words2) ==
  IF words1 = {} \/ words2 = {} THEN <<0, 1>>
  ELSE LET intersection == Cardinality(words1 \cap words2)
           union == Cardinality(words1 \cup words2)
       IN IF union > 0 THEN <<intersection, union>> ELSE <<0, 1>>

\* ratio > tenths / 10
exceeds(ratio, tenths) == ratio[1] * 10 > tenths * ratio[2]

\* find_topic returning the last topic that has a keyword in the title
find_topic_last(title) ==
  IF title = None THEN AttributeError
  ELSE LET title_lower == lower(title)
           hits == {i \in DOMAIN TOPIC_KEYWORDS :
                      \E j \in DOMAIN TOPIC_KEYWORDS[i].keywords :
                        Contains(title_lower, TOPIC_KEYWORDS[i].keywords[j])}
       IN IF hits = {} THEN None
          ELSE TOPIC_KEYWORDS[CHOOSE i \in hits : \A j \in hits : i >= j].topic

\* find_topic(title): the first topic one of whose keywords occurs in the
\* lower-cased title, None if there is none; AttributeError when title is
\* None
find_topic(title) ==
  IF title = None THEN AttributeError
  ELSE LET title_lower == lower(title)
           hits == {i \in DOMAIN TOPIC_KEYWORDS :
                      \E j \in DOMAIN TOPIC_KEYWORDS[i].keywords :
                        Contains(title_lower, TOPIC_KEYWORDS[i].keywords[j])}
       IN IF hits = {} THEN None
          ELSE TOPIC_KEYWORDS[CHOOSE i \in hits : \A j \in hits : i <= j].topic

---------------------------------------------------------------------------
(* score_bills.py: score_all_bills.  One run loads the stored collection,  *)
(* scores the bills one by one and writes the collection back.             *)

\* the state of a script that is not running
Idle ==
  /\ pc' = "idle"
  /\ hashseed' = 0
  /\ bills' = <<>>
  /\ idx' = 1
  /\ by_number' = <<>>
  /\ by_topic' = <<>>
  /\ clusters' = <<>>

\* lines 196-205: "No bills.json found" returns 1; otherwise the collection
\* is loaded, in an interpreter whose hash seed is seed
score_all_bills_load(seed) ==
  /\ pc = "idle"
  /\ IF ~file_exists
     THEN /\ outcome' = "return 1"
          /\ UNCHANGED <<pc, hashseed, bills, idx>>
     ELSE /\ pc' = "score"
          /\ hashseed' = seed
          /\ bills' = stored
          /\ idx' = 1
          /\ outcome' = "running"
  /\ UNCHANGED <<file_exists, stored, clusters_file, by_number, by_topic,
                 clusters, fetches>>

\* score_all_bills_step that writes the collection after every bill
score_all_bills_step_eager ==
  /\ pc = "score"
  /\ idx <= Len(bills)
  /\ LET effect(result) ==
           IF raised(result)
           THEN outcome' = result.raised /\ Idle /\ UNCHANGED stored
           ELSE /\ bills' = [bills EXCEPT ![idx] = result]
                /\ stored' = [bills EXCEPT ![idx] = result]
                /\ idx' = idx + 1
                /\ UNCHANGED <<pc, hashseed, by_number, by_topic, clusters, outcome>>
     IN effect(score_bill(bills[idx], hashseed))
  /\ UNCHANGED <<file_exists, clusters_file, fetches>>

\* lines 217-219: one iteration of "for bill in bills"; an exception ends
\* the run before anything is written
score_all_bills_step ==
  /\ pc = "score"
  /\ idx <= Len(bills)
  /\ LET effect(result) ==
           IF raised(result)
           THEN outcome' = result.raised /\ Idle
           ELSE /\ bills' = [bills EXCEPT ![idx] = result]
                /\ idx' = idx + 1
                /\ UNCHANGED <<pc, hashseed, by_number, by_topic, clusters, outcome>>
     IN effect(score_bill(bills[idx], hashseed))
  /\ UNCHANGED <<file_exists, stored, clusters_file, fetches>>

\* lines 222-234: the loop is over; the collection is written and the run
\* returns 0
score_all_bills_save ==
  /\ pc = "score"
  /\ idx > Len(bills)
  /\ stored' = bills
  /\ outcome' = "return 0"
  /\ Idle
  /\ UNCHANGED <<file_exists, clusters_file, fetches>>

---------------------------------------------------------------------------
(* fetch_bills.py: the refresh of a stored bill from the upstream master   *)
(* list.  The refreshed record takes title and last_action from upstream,  *)
(* keeps the stored description and carries the derived fields over.       *)

PRESERVED_KEYS ==
  {"threat_score", "threat_level", "threat_label", "concerns", "positives",
   "ai_summary", "plain_summary", "amended", "amendment_count",
   "related_bills", "fiscal_impact"}

fetch_refresh(existing, title, last_action) ==
  LET bill_data == [bill_number |-> get_or(existing, "bill_number", ""),
                    title |-> title,
                    description |-> get_or(existing, "description", ""),
                    last_action |-> last_action]
      kept == PRESERVED_KEYS \cap DOMAIN existing
  IN [k \in DOMAIN bill_data \cup kept |->
        IF k \in kept THEN existing[k] ELSE bill_data[k]]

---------------------------------------------------------------------------
(* find_related_bills.py: find_related_bills.  by_number and by_topic hold *)
(* positions in bills, which stand for the references to the bill dicts.   *)

\* lines 71-83
find_related_load ==
  /\ pc = "idle"
  /\ IF ~file_exists
     THEN /\ outcome' = "return 1"
          /\ UNCHANGED <<pc, bills, idx>>
     ELSE /\ pc' = "index"
          /\ bills' = stored
          /\ idx' = 1
          /\ outcome' = "running"
  /\ UNCHANGED <<file_exists, stored, clusters_file, hashseed, by_number,
                 by_topic, clusters, fetches>>

\* d[key] = value for a dict d
dict_set(d, key, value) ==
  [k \in DOMAIN d \cup {key} |-> IF k = key THEN value ELSE d[k]]

\* lines 85-98: one iteration of the indexing loop, given what
\* extract_bill_number and find_topic return for the bill
index_parsed(i, parsed, title, topic) ==
  IF parsed[1] = AttributeError \/ topic = AttributeError
  THEN [raised |-> AttributeError]
  ELSE [by_number |->
          IF parsed[1] # None /\ parsed[1] # "" /\ parsed[2] # 0
          THEN dict_set(by_number, parsed, i)
          ELSE by_number,
        by_topic |->
          IF topic # None /\ topic # ""
          THEN dict_set(by_topic, topic,
                        IF topic \in DOMAIN by_topic
                        THEN Append(by_topic[topic], i) ELSE <<i>>)
          ELSE by_topic,
        bill |-> put(bills[i], "_words", get_words(title))]

index_titled(i, parsed, title) == index_parsed(i, parsed, title, find_topic(title))

index_bill(i) ==
  index_titled(i, extract_bill_number(get_or(bills[i], "bill_number", "")),
               get_or(bills[i], "title", ""))

find_related_index ==
  /\ pc = "index"
  /\ idx <= Len(bills)
  /\ LET effect(result) ==
           IF raised(result)
           THEN outcome' = result.raised /\ Idle
           ELSE /\ by_number' = result.by_number
                /\ by_topic' = result.by_topic
                /\ bills' = [bills EXCEPT ![idx] = result.bill]
                /\ idx' = idx + 1
                /\ UNCHANGED <<pc, hashseed, clusters, outcome>>
     IN effect(index_bill(idx))
  /\ UNCHANGED <<file_exists, stored, clusters_file, fetches>>

\* lines 100-102: the indexing loop is over
find_related_indexed ==
  /\ pc = "index"
  /\ idx > Len(bills)
  /\ pc' = "relate"
  /\ idx' = 1
  /\ clusters' = <<>>
  /\ UNCHANGED <<file_exists, stored, clusters_file, hashseed, bills,
                 by_number, by_topic, outcome, fetches>>

\* companions with the offsets 0 to 10 only
companions_up(i, bill_number, prefix, num) ==
  IF prefix \in {"HB", "SB"} /\ num # 0
  THEN LET companion_prefix == IF prefix = "HB" THEN "SB" ELSE "HB"
           accepted(key, offset) ==
             /\ key \in DOMAIN by_number
             /\ bills[by_number[key]].bill_number # bill_number
             /\ \/ offset = 0
                \/ exceeds(word_overlap(bills[i]._words,
                                        bills[by_number[key]]._words), 4)
       IN {bills[by_number[<<companion_prefix, num + offset>>]].bill_number :
             offset \in {o \in 0..10 : accepted(<<companion_prefix, num + o>>, o)}}
  ELSE {}

\* companions with the offsets -11 to 11
companions_wide(i, bill_number, prefix, num) ==
  IF prefix \in {"HB", "SB"} /\ num # 0
  THEN LET companion_prefix == IF prefix = "HB" THEN "SB" ELSE "HB"
           accepted(key, offset) ==
             /\ key \in DOMAIN by_number
             /\ bills[by_number[key]].bill_number # bill_number
             /\ \/ offset = 0
                \/ exceeds(word_overlap(bills[i]._words,
                                        bills[by_number[key]]._words), 4)
       IN {bills[by_number[<<companion_prefix, num + offset>>]].bill_number :
             offset \in {o \in -11..11 : accepted(<<companion_prefix, num + o>>, o)}}
  ELSE {}

\* lines 109-118: the companion hits of bills[i], whose number is
\* bill_number and parses to <<prefix, num>>
companions(i, bill_number, prefix, num) ==
  IF prefix \in {"HB", "SB"} /\ num # 0
  THEN LET companion_prefix == IF prefix = "HB" THEN "SB" ELSE "HB"
           accepted(key, offset) ==
             /\ key \in DOMAIN by_number
             /\ bills[by_number[key]].bill_number # bill_number
             /\ \/ offset = 0
                \/ exceeds(word_overlap(bills[i]._words,
                                        bills[by_number[key]]._words), 4)
       IN {bills[by_number[<<companion_prefix, num + offset>>]].bill_number :
             offset \in {o \in -10..10 : accepted(<<companion_prefix, num + o>>, o)}}
  ELSE {}

companion_hits(i, bill_number, parsed) ==
  companions(i, bill_number, parsed[1], parsed[2])

\* topic_hits with the threshold of the companion rule, 0.4
topic_hits_loose(i, bill_number, topic) ==
  LET others == Range(by_topic[topic])
  IN IF \E o \in others : "bill_number" \notin DOMAIN bills[o]
     THEN {"<KeyError>"}
     ELSE {bills[o].bill_number :
             o \in {x \in others :
                      /\ bills[x].bill_number # bill_number
                      /\ exceeds(word_overlap(bills[i]._words, bills[x]._words), 4)}}

\* topic_hits without the comparison of the two bill numbers
topic_hits_any(i, bill_number, topic) ==
  LET others == Range(by_topic[topic])
  IN IF \E o \in others : "bill_number" \notin DOMAIN bills[o]
     THEN {"<KeyError>"}
     ELSE {bills[o].bill_number :
             o \in {x \in others :
                      exceeds(word_overlap(bills[i]._words, bills[x]._words), 5)}}

\* lines 128-132: the topic hits of bills[i], whose topic is topic; KeyError
\* when a bill listed under the topic holds no bill_number
topic_hits(i, bill_number, topic) ==
  LET others == Range(by_topic[topic])
  IN IF \E o \in others : "bill_number" \notin DOMAIN bills[o]
     THEN {"<KeyError>"}
     ELSE {bills[o].bill_number :
             o \in {x \in others :
                      /\ bills[x].bill_number # bill_number
                      /\ exceeds(word_overlap(bills[i]._words, bills[x]._words), 5)}}

\* clusters[topic].add(bill_number) for the insertion-ordered defaultdict
cluster_add(cl, topic, bill_number) ==
  IF \E j \in DOMAIN cl : cl[j].topic = topic
  THEN [j \in DOMAIN cl |->
          IF cl[j].topic = topic
          THEN [topic |-> topic, members |-> cl[j].members \cup {bill_number}]
          ELSE cl[j]]
  ELSE Append(cl, [topic |-> topic, members |-> {bill_number}])

\* relate_found without the cut to 10 entries
relate_found_uncut(i, bill_number, topic, companion, by_title) ==
  IF "<KeyError>" \in by_title
  THEN [raised |-> "KeyError"]
  ELSE [bill |-> put(bills[i], "related_bills", sorted(companion \cup by_title)),
        clusters |-> IF topic # None /\ topic # ""
                     THEN cluster_add(clusters, topic, bill_number)
                     ELSE clusters]

\* lines 134-138, and the cluster of line 126
relate_found(i, bill_number, topic, companion, by_title) ==
  IF "<KeyError>" \in by_title
  THEN [raised |-> "KeyError"]
  ELSE [bill |-> put(bills[i], "related_bills",
                     take(sorted(companion \cup by_title), 10)),
        clusters |-> IF topic # None /\ topic # ""
                     THEN cluster_add(clusters, topic, bill_number)
                     ELSE clusters]

\* lines 104-138: one iteration of the relation loop
relate_topic(i, bill_number, topic) ==
  relate_found(i, bill_number, topic,
               companion_hits(i, bill_number, extract_bill_number(bill_number)),
               IF topic # None /\ topic # ""
               THEN topic_hits(i, bill_number, topic) ELSE {})

relate_bill(i) ==
  relate_topic(i, get_or(bills[i], "bill_number", ""),
               find_topic(get_or(bills[i], "title", "")))

find_related_relate ==
  /\ pc = "relate"
  /\ idx <= Len(bills)
  /\ LET effect(result) ==
           IF raised(result)
           THEN outcome' = result.raised /\ Idle
           ELSE /\ bills' = [bills EXCEPT ![idx] = result.bill]
                /\ clusters' = result.clusters
                /\ idx' = idx + 1
                /\ UNCHANGED <<pc, hashseed, by_number, by_topic, outcome>>
     IN effect(relate_bill(idx))
  /\ UNCHANGED <<file_exists, stored, clusters_file, fetches>>

\* find_related_cleanup that leaves the word sets on the bills
find_related_cleanup_skip ==
  /\ pc = "relate"
  /\ idx > Len(bills)
  /\ pc' = "save"
  /\ UNCHANGED <<file_exists, stored, clusters_file, hashseed, bills, idx,
                 by_number, by_topic, clusters, outcome, fetches>>

\* lines 140-143: the relation loop is over; the word sets are removed
find_related_cleanup ==
  /\ pc = "relate"
  /\ idx > Len(bills)
  /\ bills' = [i \in DOMAIN bills |->
                 IF "_words" \in DOMAIN bills[i] THEN del(bills[i], "_words")
                 ELSE bills[i]]
  /\ pc' = "save"
  /\ UNCHANGED <<file_exists, stored, clusters_file, hashseed, idx, by_number,
                 by_topic, clusters, outcome, fetches>>

\* lines 148-151
find_related_save ==
  /\ pc = "save"
  /\ stored' = bills
  /\ pc' = "clusters"
  /\ UNCHANGED <<file_exists, clusters_file, hashseed, bills, idx, by_number,
                 by_topic, clusters, outcome, fetches>>

\* sorted(items, key=lambda x: -len(x[1])): by falling size, items of one
\* size in their old order
RECURSIVE by_size(_, _)
by_size(cl, left) ==
  IF left = {} THEN <<>>
  ELSE LET first == CHOOSE j \in left : \A k \in left \ {j} :
                      \/ Cardinality(cl[j].members) > Cardinality(cl[k].members)
                      \/ /\ Cardinality(cl[j].members) = Cardinality(cl[k].members)
                         /\ j < k
       IN <<cl[first]>> \o by_size(cl, left \ {first})

\* cluster_data with the clusters in the order of the dict, unsorted
cluster_data_unsorted(cl) ==
  LET big(c) == Cardinality(c.members) > 1
      emitted == SelectSeq(cl, big)
  IN [j \in DOMAIN emitted |->
        [topic |-> emitted[j].topic,
         count |-> Cardinality(emitted[j].members),
         bills |-> take(sorted(emitted[j].members), 20)]]

\* cluster_data with every cluster emitted, whatever its size
cluster_data_all(cl) ==
  LET ordered == by_size(cl, DOMAIN cl)
  IN [j \in DOMAIN ordered |->
        [topic |-> ordered[j].topic,
         count |-> Cardinality(ordered[j].members),
         bills |-> take(sorted(ordered[j].members), 20)]]

\* lines 154-161
cluster_data(cl) ==
  LET ordered == by_size(cl, DOMAIN cl)
      big(c) == Cardinality(c.members) > 1
      emitted == SelectSeq(ordered, big)
  IN [j \in DOMAIN emitted |->
        [topic |-> emitted[j].topic,
         count |-> Cardinality(emitted[j].members),
         bills |-> take(sorted(emitted[j].members), 20)]]

\* lines 153-173
find_related_clusters ==
  /\ pc = "clusters"
  /\ clusters_file' = cluster_data(clusters)
  /\ outcome' = "return 0"
  /\ Idle
  /\ UNCHANGED <<file_exists, stored, fetches>>

---------------------------------------------------------------------------
(* The stored collections the runs start from, and the upstream refreshes. *)

MaxScoreBills == 1
MaxRelateBills == 3
MaxFetches == 1
MaxSeed == 2

\* bills as a fetch or a hand edit leaves them, none scored yet
SCORE_POOL ==
  << [bill_number |-> "HB 1001", title |-> "Parks", description |-> "",
      last_action |-> ""],
     [bill_number |-> "HB 1002", title |-> "Ban",
      description |-> "Bond study permit", last_action |-> None],
     [bill_number |-> "SB 5001", title |-> "Tax cut",
      description |-> "public record", last_action |-> ""],
     [bill_number |-> "SB 5002", title |-> None, description |-> "",
      last_action |-> "new tax"],
     [bill_number |-> "HB 1003", title |-> "Study", description |-> "Ban",
      last_action |-> ""] >>

\* <<title, last_action>> of a bill in a later upstream master list
REFRESHES ==
  { <<"", "">>, <<"Bond", "">>, <<"Tax cut", "">> }

RELATE_POOL ==
  << [bill_number |-> "HB 100",
      title |-> "An act imposing a new tax on carbon emissions"],
     [bill_number |-> "SB 100", title |-> "Concerning state parks"],
     [bill_number |-> "SB 105", title |-> "Imposing a new tax on carbon emissions"],
     [bill_number |-> "HB 0", title |-> "Concerning school levy"],
     [bill_number |-> "SB 0", title |-> "Parks"],
     [bill_number |-> "hb100", title |-> "Transit funding"],
     [title |-> "School tax levy"],
     [bill_number |-> None, title |-> ""],
     [bill_number |-> "HJR 4200", title |-> None],
     [bill_number |-> "1234", title |-> ""] >>

\* the sequences of at most n members of pool
Corpora(pool, n) ==
  UNION {[1..k -> Range(pool)] : k \in 0..n}

NotRunning ==
  /\ clusters_file = <<>>
  /\ pc = "idle"
  /\ hashseed = 0
  /\ bills = <<>>
  /\ idx = 1
  /\ by_number = <<>>
  /\ by_topic = <<>>
  /\ clusters = <<>>
  /\ outcome = "none"
  /\ fetches = 0

InitScorer ==
  /\ file_exists \in BOOLEAN
  /\ stored \in IF file_exists THEN Corpora(SCORE_POOL, MaxScoreBills) ELSE {<<>>}
  /\ NotRunning

InitRelator ==
  /\ file_exists \in BOOLEAN
  /\ stored \in IF file_exists THEN Corpora(RELATE_POOL, MaxRelateBills) ELSE {<<>>}
  /\ NotRunning

\* fetch_all_bills, for one bill of the stored collection
fetch_bills_refresh ==
  /\ pc = "idle"
  /\ file_exists
  /\ fetches < MaxFetches
  /\ \E i \in DOMAIN stored, master \in REFRESHES :
       stored' = [stored EXCEPT ![i] = fetch_refresh(@, master[1], master[2])]
  /\ fetches' = fetches + 1
  /\ UNCHANGED <<file_exists, clusters_file, pc, hashseed, bills, idx,
                 by_number, by_topic, clusters, outcome>>

score_all_bills ==
  \/ \E seed \in 1..MaxSeed : score_all_bills_load(seed)
  \/ score_all_bills_step
  \/ score_all_bills_save

find_related_bills ==
  \/ find_related_load
  \/ find_related_index
  \/ find_related_indexed
  \/ find_related_relate
  \/ find_related_cleanup
  \/ find_related_save
  \/ find_related_clusters

NextScorer == fetch_bills_refresh \/ score_all_bills
NextRelator == find_related_bills
Next == fetch_bills_refresh \/ score_all_bills \/ find_related_bills

Init == InitScorer \/ InitRelator

ScorerSpec == InitScorer /\ [][NextScorer]_vars
RelatorSpec == InitRelator /\ [][NextRelator]_vars
Spec == Init /\ [][Next]_vars

---------------------------------------------------------------------------
(* Properties of the scorer.  While a run of score_all_bills is at         *)
(* pc = "score", stored[i] is the bill as score_bill received it and, for  *)
(* i < idx, bills[i] is the bill as score_bill left it.                    *)

Scored(i) == pc = "score" /\ i \in DOMAIN bills /\ i < idx

ScoredBills == {i \in DOMAIN bills : Scored(i)}

\* a text field that is absent, null or empty
Blank(bill, key) == get(bill, key) \in {None, ""}

HasText(bill) == ~Blank(bill, "title") \/ ~Blank(bill, "description")

\* a text field that is absent or empty
Empty(bill, key) == key \notin DOMAIN bill \/ bill[key] = ""

AllEmpty(bill) ==
  Empty(bill, "title") /\ Empty(bill, "description") /\ Empty(bill, "last_action")

\* the text the rules are matched against
analysis_text(bill) ==
  lower(or_else(get(bill, "title"), "")) \o " "
    \o lower(or_else(get(bill, "description"), "")) \o " "
    \o lower(or_else(get(bill, "last_action"), ""))

\* the positions in a table of the rules that match a text
matching(flags, text) == {j \in DOMAIN flags : search(flags[j].re, text)}

RECURSIVE weight_sum(_, _)
weight_sum(flags, J) ==
  IF J = {} THEN 0
  ELSE LET j == CHOOSE j \in J : TRUE
       IN flags[j].weight + weight_sum(flags, J \ {j})

matched_weight(flags, text) == weight_sum(flags, matching(flags, text))

matched_labels(flags, text) ==
  {concern_label(flags[j].pattern) : j \in matching(flags, text)}

evidence(bill, key) == get_or(bill, key, <<>>)

DERIVED_KEYS ==
  {"threat_score", "threat_level", "threat_label", "concerns", "positives"}

derived(bill) == [k \in DERIVED_KEYS \cap DOMAIN bill |-> bill[k]]

text_only(bill) == [k \in DOMAIN bill \ DERIVED_KEYS |-> bill[k]]

\* C1: the derived fields score_bill leaves on a bill depend only on the
\* bill's text and the rule tables, whatever derived fields the bill carried
\* into the call: they are the ones the call leaves on the same bill with no
\* derived field.
C1_Determinism ==
  \A i \in ScoredBills :
    derived(bills[i]) = derived(score_bill(text_only(stored[i]), hashseed))

\* C2: for a bill with a non-empty title or description the level is
\* critical from 6 up, high from 3 to 5, moderate for 1 and 2, low from -2
\* to 0 and beneficial from -3 down.
C2_ThresholdLadder ==
  \A i \in ScoredBills :
    HasText(stored[i]) =>
      LET s == bills[i].threat_score
          level == bills[i].threat_level
      IN /\ level = "critical" <=> s >= 6
         /\ level = "high" <=> (3 <= s /\ s <= 5)
         /\ level = "moderate" <=> (1 <= s /\ s <= 2)
         /\ level = "low" <=> (-2 <= s /\ s <= 0)
         /\ level = "beneficial" <=> s <= -3

\* a scored bill whose score is exactly 6, the lowest critical score
C2_Witness ==
  \E i \in ScoredBills :
    /\ HasText(stored[i])
    /\ bills[i].threat_score = 6
    /\ bills[i].threat_level = "critical"

\* C3: for a bill with a non-empty title or description the score is 1 plus
\* the weights of all the rules of the three tables that match the text,
\* each counted once.
C3_ScoreArithmetic ==
  \A i \in ScoredBills :
    HasText(stored[i]) =>
      bills[i].threat_score =
        1 + matched_weight(RED_FLAGS, analysis_text(stored[i]))
          + matched_weight(ORANGE_FLAGS, analysis_text(stored[i]))
          + matched_weight(GREEN_FLAGS, analysis_text(stored[i]))

\* a scored bill whose text matches rules of all three tables
C3_Witness ==
  \E i \in ScoredBills :
    /\ HasText(stored[i])
    /\ matching(RED_FLAGS, analysis_text(stored[i])) # {}
    /\ matching(ORANGE_FLAGS, analysis_text(stored[i])) # {}
    /\ matching(GREEN_FLAGS, analysis_text(stored[i])) # {}

\* C4: a bill whose title, description and last_action are all empty or
\* absent leaves score_bill with level unknown, score 0, no concerns and no
\* positives.
C4_AllEmpty ==
  \A i \in ScoredBills :
    AllEmpty(stored[i]) =>
      /\ bills[i].threat_level = "unknown"
      /\ bills[i].threat_score = 0
      /\ evidence(bills[i], "concerns") = <<>>
      /\ evidence(bills[i], "positives") = <<>>

\* C5: a bill whose title and description are both empty leaves score_bill
\* with level unknown and score 0, whatever its last_action matches.
C5_UnknownOverride ==
  \A i \in ScoredBills :
    ~HasText(stored[i]) =>
      bills[i].threat_level = "unknown" /\ bills[i].threat_score = 0

\* a scored bill with no title and no description whose last_action matches
\* a rule
C5_Witness ==
  \E i \in ScoredBills :
    /\ ~HasText(stored[i])
    /\ matching(RED_FLAGS, analysis_text(stored[i])) # {}
    /\ bills[i].threat_level = "unknown"

\* C6: after score_bill the concerns and positives of a bill hold only
\* labels of rules the call matched, whatever the bill carried before.
C6_WholesaleReplacement ==
  \A i \in ScoredBills :
    /\ Range(evidence(bills[i], "concerns")) \subseteq
         matched_labels(RED_FLAGS, analysis_text(stored[i]))
           \cup matched_labels(ORANGE_FLAGS, analysis_text(stored[i]))
    /\ Range(evidence(bills[i], "positives")) \subseteq
         matched_labels(GREEN_FLAGS, analysis_text(stored[i]))

\* C7: after score_bill concerns and positives hold at most 3 entries and no
\* entry twice, and a bill scored before from the same text (no refresh has
\* changed the stored bills) gets the same entries in the same order again.
C7_BoundedStableEvidence ==
  \A i \in ScoredBills : \A key \in {"concerns", "positives"} :
    /\ Len(evidence(bills[i], key)) <= 3
    /\ Cardinality(Range(evidence(bills[i], key))) = Len(evidence(bills[i], key))
    /\ (fetches = 0 /\ "threat_score" \in DOMAIN stored[i]) =>
         evidence(bills[i], key) = evidence(stored[i], key)

---------------------------------------------------------------------------
(* Properties of find_related_bills.                                       *)

\* the bills that hold a related_bills list: those the relation loop has
\* passed, and those a finished run has written
Related(coll) == {i \in DOMAIN coll : "related_bills" \in DOMAIN coll[i]}

\* C9: a bill's own bill_number is never in its related_bills.
C9_SelfExclusion ==
  /\ \A i \in Related(bills) :
       get_or(bills[i], "bill_number", "") \notin Range(bills[i].related_bills)
  /\ \A i \in Related(stored) :
       get_or(stored[i], "bill_number", "") \notin Range(stored[i].related_bills)

\* a finished run has written a bill that has related bills
C9_Witness ==
  /\ outcome = "return 0"
  /\ \E i \in Related(stored) : stored[i].related_bills # <<>>

\* the numbers of the bills "HB N" and "SB N" of the corpora
COMPANION_NUMBERS == {"0", "100", "105"}

\* C10: after a run, a bill numbered "HB N" and a bill numbered "SB N" of
\* the corpus list each other's number in related_bills.
C10_CompanionSymmetry ==
  outcome = "return 0" =>
    \A N \in COMPANION_NUMBERS : \A i, j \in DOMAIN stored :
      ( /\ get(stored[i], "bill_number") = "HB " \o N
        /\ get(stored[j], "bill_number") = "SB " \o N )
      => /\ "SB " \o N \in Range(evidence(stored[i], "related_bills"))
         /\ "HB " \o N \in Range(evidence(stored[j], "related_bills"))

---------------------------------------------------------------------------
(* Corpora of many bills of one title, numbered HB 1, SB 2, HB 3, ...      *)

MaxBigBills == 12

\* str(n) for a natural number
RECURSIVE decimal(_)
decimal(n) ==
  IF n < 10 THEN SubSeq(DIGITS, n + 1, n + 1)
  ELSE decimal(n \div 10) \o SubSeq(DIGITS, (n % 10) + 1, (n % 10) + 1)

BIG_TITLES == {"Carbon tax", "State parks"}

BigCorpus(k, title) ==
  [i \in 1..k |->
     [bill_number |-> (IF i % 2 = 1 THEN "HB " ELSE "SB ") \o decimal(i),
      title |-> title]]

InitAssembly ==
  /\ file_exists \in BOOLEAN
  /\ stored \in IF file_exists
                THEN {BigCorpus(k, title) : k \in 0..MaxBigBills, title \in BIG_TITLES}
                ELSE {<<>>}
  /\ NotRunning

AssemblySpec == InitAssembly /\ [][NextRelator]_vars

\* the relation loop of the running find_related_bills has passed bills[i]
RelatedNow(i) == pc = "relate" /\ i \in DOMAIN bills /\ i < idx

RelatedNowBills == {i \in DOMAIN bills : RelatedNow(i)}

number_of(bill) == get_or(bill, "bill_number", "")

\* the companion hits and the topic-similarity hits of bills[i]
hit_union(i) ==
  companion_hits(i, number_of(bills[i]), extract_bill_number(number_of(bills[i])))
    \cup (IF find_topic(bills[i].title) \in {None, ""} THEN {}
          ELSE topic_hits(i, number_of(bills[i]), find_topic(bills[i].title)))

\* r holds the least entries of U, at most 10, in strictly ascending order
LeastTen(r, U) ==
  /\ Range(r) \subseteq U
  /\ Len(r) <= 10
  /\ \A j \in 1..(Len(r) - 1) : str_lt(r[j], r[j + 1])
  /\ \A x \in U \ Range(r) : Len(r) = 10 /\ \A j \in DOMAIN r : str_lt(r[j], x)

\* C11: related_bills is the union of the companion hits and the topic
\* hits without the bill's own number, without duplicates, in ascending
\* order of the strings, cut to the first 10 entries of that order.
C11_Assembly ==
  \A i \in RelatedNowBills :
    LeastTen(bills[i].related_bills, hit_union(i) \ {number_of(bills[i])})

\* a bill with more than 10 hits, whose list holds 10 entries
C11_Witness ==
  \E i \in RelatedNowBills :
    /\ Cardinality(hit_union(i) \ {number_of(bills[i])}) > 10
    /\ Len(bills[i].related_bills) = 10

---------------------------------------------------------------------------
(* The cluster summary.                                                    *)

\* the bills of the stored collection whose title has the topic
bills_of_topic(topic) ==
  {i \in DOMAIN stored : find_topic(get_or(stored[i], "title", "")) = topic}

TOPICS == {TOPIC_KEYWORDS[k].topic : k \in DOMAIN TOPIC_KEYWORDS}

\* C12: every cluster of the summary has at least 2 members, and after a
\* run a topic of exactly one bill has no cluster.
C12_ClusterMinimality ==
  /\ \A c \in Range(clusters_file) : c.count >= 2 /\ Len(c.bills) >= 2
  /\ outcome = "return 0" =>
       \A topic \in TOPICS :
         Cardinality(bills_of_topic(topic)) = 1 =>
           \A c \in Range(clusters_file) : c.topic # topic

\* a finished run has emitted a cluster and left out a topic of one bill
C12_Witness ==
  /\ outcome = "return 0"
  /\ clusters_file # <<>>
  /\ \E topic \in TOPICS : Cardinality(bills_of_topic(topic)) = 1

---------------------------------------------------------------------------
(* Runs over degenerate bills.                                             *)

\* C13: find_related_bills ends without an error, whatever bill_number and
\* title the bills of the collection hold.
C13_NeverRaises == outcome \notin {AttributeError, "KeyError"}

\* the bill number parses as letters followed by digits
Parses(bill) ==
  extract_bill_number(number_of(bill))[1] \notin {None, AttributeError}

title_of(bill) == get_or(bill, "title", "")

opposite(prefix) == IF prefix = "HB" THEN "SB" ELSE "HB"

\* x is the number of a bill of the opposite chamber with the number of
\* bill: a companion at offset 0
ExactCompanion(bill, x) ==
  \E j \in DOMAIN stored :
    /\ number_of(stored[j]) = x
    /\ Parses(bill)
    /\ extract_bill_number(x) =
         <<opposite(extract_bill_number(number_of(bill))[1]),
           extract_bill_number(number_of(bill))[2]>>

\* x is the number of a bill with the topic of bill
SameTopic(bill, x) ==
  \E j \in DOMAIN stored :
    /\ number_of(stored[j]) = x
    /\ find_topic(title_of(bill)) \notin {None, AttributeError}
    /\ find_topic(title_of(stored[j])) = find_topic(title_of(bill))

\* what the claim C14 says of one bill of the collection a run has left
Degenerate(bill) ==
  /\ "related_bills" \in DOMAIN bill
  /\ ~Parses(bill) =>
       \A x \in Range(bill.related_bills) : SameTopic(bill, x)
  /\ title_of(bill) = "" =>
       \A x \in Range(bill.related_bills) : ExactCompanion(bill, x)
  /\ (~Parses(bill) /\ title_of(bill) = "") => bill.related_bills = <<>>

\* C14: once find_related_bills has run over a collection, every bill holds
\* a related_bills list; the list of a bill whose number does not parse
\* holds topic hits only, the list of a bill with an empty title holds
\* companions of its own number only, and the list of a bill with both is
\* empty.
C14_DegenerateBills ==
  (pc = "idle" /\ outcome \notin {"none", "return 1"}) =>
    \A i \in DOMAIN stored : Degenerate(stored[i])

---------------------------------------------------------------------------
(* The order of the stored collection.  fetch_bills.py writes bills.json   *)
(* sorted by last_action_date, newest first, so a later fetch of the same  *)
(* bills can leave them in another order, their derived fields preserved.  *)

MaxPermBills == 4

PERM_POOL ==
  << [bill_number |-> "HB 1001", title |-> "Carbon tax", description |-> "",
      last_action |-> ""],
     [bill_number |-> "SB 5001", title |-> "Sales tax", description |-> "",
      last_action |-> ""],
     [bill_number |-> "HB 1002", title |-> "Hospital fees", description |-> "",
      last_action |-> ""],
     [bill_number |-> "SB 5002", title |-> "Hospital staffing", description |-> "",
      last_action |-> ""] >>

\* the refreshed bills in the order order
reordered(existing, order) ==
  [i \in DOMAIN existing |->
     fetch_refresh(existing[order[i]], existing[order[i]].title,
                   existing[order[i]].last_action)]

fetch_bills_reorder ==
  /\ pc = "idle"
  /\ file_exists
  /\ fetches < MaxFetches
  /\ \E order \in Permutations(DOMAIN stored) : stored' = reordered(stored, order)
  /\ fetches' = fetches + 1
  /\ UNCHANGED <<file_exists, clusters_file, pc, hashseed, bills, idx,
                 by_number, by_topic, clusters, outcome>>

InitPerm ==
  /\ file_exists \in BOOLEAN
  /\ stored \in IF file_exists THEN Corpora(PERM_POOL, MaxPermBills) ELSE {<<>>}
  /\ NotRunning

NextPerm == fetch_bills_reorder \/ find_related_bills

PermSpec == InitPerm /\ [][NextPerm]_vars

\* C15: a run of find_related_bills over a collection that an earlier run
\* has handled in another order gives every bill the related_bills it had
\* and emits the cluster summary the earlier run emitted.
C15_OrderIrrelevance ==
  ( /\ pc = "save"
    /\ \A i \in DOMAIN stored : "related_bills" \in DOMAIN stored[i] )
  => /\ \A i \in DOMAIN stored : bills[i].related_bills = stored[i].related_bills
     /\ stored # <<>> => cluster_data(clusters) = clusters_file

---------------------------------------------------------------------------
(* The corpus of two companion bills of one title, scored and related.     *)

EXAMPLE_TITLE == "An act imposing a new tax on carbon emissions"

EXAMPLE_CORPUS ==
  << [bill_number |-> "HB 100", title |-> EXAMPLE_TITLE],
     [bill_number |-> "SB 100", title |-> EXAMPLE_TITLE] >>

InitExample ==
  /\ file_exists \in BOOLEAN
  /\ stored \in IF file_exists
                THEN {EXAMPLE_CORPUS, <<EXAMPLE_CORPUS[2], EXAMPLE_CORPUS[1]>>}
                ELSE {<<>>}
  /\ NotRunning

NextExample == score_all_bills \/ find_related_bills

ExampleSpec == InitExample /\ [][NextExample]_vars

\* the related_bills the example gives a bill
ExampleRelated(bill) ==
  IF bill.bill_number = "HB 100" THEN <<"SB 100">> ELSE <<"HB 100">>

\* C16: in the corpus of HB 100 and SB 100, both titled "An act imposing a
\* new tax on carbon emissions", a scored bill has level critical or high
\* and a score of at least 4, and a related bill lists exactly the other
\* bill.
C16_Example ==
  /\ \A i \in ScoredBills :
       /\ bills[i].threat_level \in {"critical", "high"}
       /\ bills[i].threat_score >= 4
  /\ \A i \in Related(bills) : bills[i].related_bills = ExampleRelated(bills[i])
  /\ \A i \in Related(stored) : stored[i].related_bills = ExampleRelated(stored[i])

\* both scripts have run: HB 100 is stored with its level and its list
C16_Witness ==
  \E i \in DOMAIN stored :
    /\ stored[i].bill_number = "HB 100"
    /\ "threat_level" \in DOMAIN stored[i]
    /\ stored[i].threat_level = "high"
    /\ "related_bills" \in DOMAIN stored[i]
    /\ stored[i].related_bills = <<"SB 100">>

---------------------------------------------------------------------------
(* Corpora around the two similarity thresholds.  With "Carbon tax" the    *)
(* titles of SB 25 and SB 23 have the word overlaps 2/5 and 2/4; SB 10 and *)
(* SB 31 stand 10 and 11 numbers away from HB 20.                          *)

MaxThresholdBills == 3

THRESHOLD_POOL ==
  << [bill_number |-> "HB 20", title |-> "Carbon tax"],
     [bill_number |-> "SB 25", title |-> "Carbon tax credit rebate plan"],
     [bill_number |-> "SB 23", title |-> "Carbon tax credit rebate"],
     [bill_number |-> "SB 31", title |-> "Carbon tax"],
     [bill_number |-> "HJR 21", title |-> "Carbon tax"],
     [bill_number |-> "SB 20", title |-> "State parks"],
     [bill_number |-> "SB 10", title |-> "Carbon tax"],
     [bill_number |-> "HB 0", title |-> "Carbon tax credit rebate"] >>

InitThreshold ==
  /\ file_exists \in BOOLEAN
  /\ stored \in IF file_exists
                THEN Corpora(THRESHOLD_POOL, MaxThresholdBills) ELSE {<<>>}
  /\ NotRunning

ThresholdSpec == InitThreshold /\ [][NextRelator]_vars

\* the Jaccard similarity of the word sets A and B is above tenths / 10
Similar(A, B, tenths) ==
  /\ A \cup B # {}
  /\ Cardinality(A \cap B) * 10 > tenths * Cardinality(A \cup B)

\* the indexing pass is over: by_number, by_topic and the word sets stand
Indexed == pc = "relate"

prefix_of(bill) == extract_bill_number(number_of(bill))[1]

num_of(bill) == extract_bill_number(number_of(bill))[2]

\* bills[j] is indexed under the opposite prefix of bills[i] with a number
\* at most 10 away, is not bills[i], and has the number of bills[i] or a
\* title of similarity above 0.4
CompanionOf(i, j) ==
  \E M \in (num_of(bills[i]) - 10)..(num_of(bills[i]) + 10) :
    /\ <<opposite(prefix_of(bills[i])), M>> \in DOMAIN by_number
    /\ by_number[<<opposite(prefix_of(bills[i])), M>>] = j
    /\ number_of(bills[j]) # number_of(bills[i])
    /\ \/ M = num_of(bills[i])
       \/ Similar(bills[i]._words, bills[j]._words, 4)

CompanionRule(i) ==
  IF prefix_of(bills[i]) \in {"HB", "SB"}
  THEN {number_of(bills[j]) : j \in {k \in DOMAIN bills : CompanionOf(i, k)}}
  ELSE {}

\* C17: the companion hits of a bill HB N or SB N are the indexed bills of
\* the opposite prefix with a number from N-10 to N+10 that are not the
\* bill itself and have the number N or a title similarity above 0.4; a
\* bill of another prefix has no companion hits.  The list of a bill holds
\* its companion hits.
C17_CompanionRule ==
  /\ Indexed =>
       \A i \in DOMAIN bills :
         companion_hits(i, number_of(bills[i]),
                        extract_bill_number(number_of(bills[i])))
           = CompanionRule(i)
  /\ \A i \in RelatedNowBills :
       CompanionRule(i) \subseteq Range(bills[i].related_bills)

\* bills[j] is another bill with the detected topic of bills[i] and a title
\* of similarity above 0.5
TopicHitOf(i, j) ==
  /\ number_of(bills[j]) # number_of(bills[i])
  /\ Similar(bills[i]._words, bills[j]._words, 5)
  /\ find_topic(title_of(bills[i])) # None
  /\ find_topic(title_of(bills[j])) = find_topic(title_of(bills[i]))

TopicRule(i) == {number_of(bills[j]) : j \in {k \in DOMAIN bills : TopicHitOf(i, k)}}

\* C18: the topic hits of a bill with a detected topic are the other bills
\* of that topic with a title similarity above 0.5, whatever the companion
\* rule says of them, and a bill with no detected topic has none: the list
\* of a bill holds its companion hits and these bills.
C18_TopicRule ==
  /\ Indexed =>
       \A i \in DOMAIN bills :
         LET rule(topic) ==
               topic # None =>
                 topic_hits(i, number_of(bills[i]), topic) = TopicRule(i)
         IN rule(find_topic(title_of(bills[i])))
  /\ \A i \in RelatedNowBills :
       Range(bills[i].related_bills) =
         companion_hits(i, number_of(bills[i]),
                        extract_bill_number(number_of(bills[i])))
           \cup TopicRule(i)

\* a bill with a topic has passed the relation loop, and a bill of its topic
\* with a title similarity of exactly 0.5 is not in its list, while a bill
\* of a greater similarity is
C18_Witness ==
  \E i \in RelatedNowBills : \E j, k \in DOMAIN bills :
    /\ find_topic(title_of(bills[i])) = "tax"
    /\ find_topic(title_of(bills[j])) = "tax"
    /\ Cardinality(bills[i]._words \cap bills[j]._words) * 2
         = Cardinality(bills[i]._words \cup bills[j]._words)
    /\ number_of(bills[j]) \notin Range(bills[i].related_bills)
    /\ number_of(bills[k]) \in TopicRule(i)
    /\ number_of(bills[k]) \in Range(bills[i].related_bills)

---------------------------------------------------------------------------
(* The companion index.                                                    *)

own_key(bill) == extract_bill_number(number_of(bill))

\* C19: after the indexing pass every bill whose number parses as letters
\* followed by digits is found in by_number under its own (prefix, number),
\* and every entry of by_number is a bill whose number parses, under that
\* bill's key.
C19_CompanionIndex ==
  Indexed =>
    /\ \A i \in DOMAIN bills :
         Parses(bills[i]) =>
           /\ own_key(bills[i]) \in DOMAIN by_number
           /\ bills[by_number[own_key(bills[i])]] = bills[i]
    /\ \A key \in DOMAIN by_number :
         /\ Parses(bills[by_number[key]])
         /\ own_key(bills[by_number[key]]) = key

---------------------------------------------------------------------------
(* Corpora of titles that hold keywords of several topics, of one and of   *)
(* none.                                                                   *)

MaxTopicBills == 2

TOPIC_POOL ==
  << [bill_number |-> "HB 1", title |-> "Hospital school"],
     [bill_number |-> "HB 2", title |-> "Student housing rent"],
     [bill_number |-> "HB 3", title |-> "Clean Energy Transit"],
     [bill_number |-> "HB 4", title |-> "Parent reunion"],
     [bill_number |-> "HB 5", title |-> "Vehicle excise"],
     [bill_number |-> "HB 6", title |-> "State parks"],
     [bill_number |-> "HB 7", title |-> "Cleanenergy"],
     [bill_number |-> "HB 8", title |-> "Traffic"] >>

InitTopic ==
  /\ file_exists \in BOOLEAN
  /\ stored \in IF file_exists
                THEN Corpora(TOPIC_POOL, MaxTopicBills) ELSE {<<>>}
  /\ NotRunning

TopicSpec == InitTopic /\ [][NextRelator]_vars

\* the enumeration order of the topics
TOPIC_ORDER ==
  <<"tax", "health", "education", "housing", "environment", "labor",
    "public safety", "transportation">>

keywords_of(topic) ==
  (CHOOSE e \in Range(TOPIC_KEYWORDS) : e.topic = topic).keywords

\* a keyword of the topic occurs in the lower-cased title
Mentions(title, topic) ==
  \E keyword \in Range(keywords_of(topic)) : Contains(lower(title), keyword)

\* the n-th topic is the first one the title mentions
FirstMention(title, n) ==
  /\ Mentions(title, TOPIC_ORDER[n])
  /\ \A k \in 1..(n - 1) : ~Mentions(title, TOPIC_ORDER[k])

\* C20: find_topic gives a title the first topic, in the order tax, health,
\* education, housing, environment, labor, public safety, transportation,
\* that has a keyword in the lower-cased title, and no topic when none has:
\* after the indexing pass a bill is in the by_topic list of that topic and
\* of no other.
C20_FirstMatch ==
  Indexed =>
    \A i \in DOMAIN bills :
      /\ \A n \in DOMAIN TOPIC_ORDER :
           /\ FirstMention(title_of(bills[i]), n)
                <=> find_topic(title_of(bills[i])) = TOPIC_ORDER[n]
           /\ FirstMention(title_of(bills[i]), n)
                <=> /\ TOPIC_ORDER[n] \in DOMAIN by_topic
                    /\ i \in Range(by_topic[TOPIC_ORDER[n]])
      /\ (\A n \in DOMAIN TOPIC_ORDER : ~Mentions(title_of(bills[i]), TOPIC_ORDER[n]))
           <=> find_topic(title_of(bills[i])) = None
      /\ DOMAIN by_topic \subseteq Range(TOPIC_ORDER)

\* the indexing pass has filed a bill whose title holds keywords of two
\* topics, neither of them the first of the order, under the earlier one
C20_Witness ==
  /\ Indexed
  /\ \E i \in DOMAIN bills : \E n, k \in DOMAIN TOPIC_ORDER :
       /\ 1 < n /\ n < k
       /\ FirstMention(title_of(bills[i]), n)
       /\ Mentions(title_of(bills[i]), TOPIC_ORDER[k])
       /\ i \in Range(by_topic[TOPIC_ORDER[n]])

---------------------------------------------------------------------------
(* Corpora of several topics: a few bills on health and education, then    *)
(* many bills on tax.                                                      *)

MaxClusterBills == 21

CLUSTER_HEADS ==
  { <<>>,
    << [bill_number |-> "HJR 901", title |-> "Hospital fees"],
       [bill_number |-> "HJR 902", title |-> "Hospital staffing"] >>,
    << [bill_number |-> "HJR 901", title |-> "Hospital fees"],
       [bill_number |-> "HJR 903", title |-> "School meals"],
       [bill_number |-> "HJR 902", title |-> "Hospital staffing"],
       [bill_number |-> "HJR 904", title |-> "School buses"],
       [bill_number |-> "HJR 905", title |-> "Hospital beds"],
       [bill_number |-> "HJR 906", title |-> "State parks"] >> }

InitCluster ==
  /\ file_exists \in BOOLEAN
  /\ stored \in IF file_exists
                THEN {head \o BigCorpus(k, "Carbon tax") :
                        head \in CLUSTER_HEADS, k \in 0..MaxClusterBills}
                ELSE {<<>>}
  /\ NotRunning

ClusterSpec == InitCluster /\ [][NextRelator]_vars

\* a run of find_related_bills has ended with its two files written
Finished == pc = "idle" /\ outcome = "return 0"

\* the bill numbers of the stored bills whose title has the topic
members_of(topic) == {number_of(stored[i]) : i \in bills_of_topic(topic)}

\* C21: the clusters of the summary stand in the order of falling count;
\* the bill numbers of a cluster are in ascending order and are min(count,
\* 20) of the cluster's members; count is the number of all the members.
C21_ClusterShape ==
  Finished =>
    /\ \A j, k \in DOMAIN clusters_file :
         j < k => clusters_file[j].count >= clusters_file[k].count
    /\ \A j \in DOMAIN clusters_file :
         LET c == clusters_file[j]
         IN /\ \A n \in 1..(Len(c.bills) - 1) : str_lt(c.bills[n], c.bills[n + 1])
            /\ Len(c.bills) = Min(c.count, 20)
            /\ Range(c.bills) \subseteq members_of(c.topic)
            /\ c.count = Cardinality(members_of(c.topic))

\* a summary of a cluster of more than 20 members, listed with 20 of them,
\* ahead of a smaller cluster that entered the dict before it
C21_Witness ==
  /\ Finished
  /\ Len(clusters_file) >= 2
  /\ clusters_file[1].topic = "tax"
  /\ clusters_file[1].count > 20
  /\ Len(clusters_file[1].bills) = 20
  /\ clusters_file[2].count < clusters_file[1].count

\* C22: a cluster's count is the number of the bills of the collection
\* whose title has the cluster's topic, and every bill whose topic is the
\* topic of another bill too is a member of the cluster of that topic.
C22_ClusterMembership ==
  Finished =>
    /\ \A j \in DOMAIN clusters_file :
         clusters_file[j].count = Cardinality(bills_of_topic(clusters_file[j].topic))
    /\ \A topic \in TOPICS :
         Cardinality(bills_of_topic(topic)) >= 2 =>
           \E j \in DOMAIN clusters_file :
             /\ clusters_file[j].topic = topic
             /\ clusters_file[j].count <= 20 =>
                  \A i \in bills_of_topic(topic) :
                    number_of(stored[i]) \in Range(clusters_file[j].bills)

---------------------------------------------------------------------------
(* The life of the temporary word sets.                                    *)

HasWords(bill) == "_words" \in DOMAIN bill

\* C23: no bill of the stored collection carries _words; in a run the bills
\* carry it from the indexing pass to the clean-up, and none carries it
\* when the collection is written.
C23_NoWordsLeak ==
  /\ \A i \in DOMAIN stored : ~HasWords(stored[i])
  /\ pc = "relate" => \A i \in DOMAIN bills : HasWords(bills[i])
  /\ pc \in {"save", "clusters"} => \A i \in DOMAIN bills : ~HasWords(bills[i])

\* a run has written a collection of bills that each hold a list
C23_Witness ==
  /\ Finished
  /\ stored # <<>>
  /\ \A i \in DOMAIN stored : "related_bills" \in DOMAIN stored[i]

---------------------------------------------------------------------------
(* Runs of both scripts, in any order, over bills that hold all four text  *)
(* fields.                                                                 *)

MaxFrameBills == 2

FRAME_POOL ==
  << [bill_number |-> "HB 20", title |-> "Carbon tax",
      description |-> "Imposing a new tax", last_action |-> "First reading"],
     [bill_number |-> "SB 20", title |-> "Carbon tax",
      description |-> "", last_action |-> "Public record"],
     [bill_number |-> "HJR 5", title |-> "",
      description |-> "", last_action |-> "Ban tax cut"],
     [bill_number |-> "HB 21", title |-> None,
      description |-> "", last_action |-> ""],
     [title |-> "Carbon tax", description |-> "", last_action |-> ""] >>

InitFrame ==
  /\ file_exists \in BOOLEAN
  /\ stored \in IF file_exists
                THEN Corpora(FRAME_POOL, MaxFrameBills) ELSE {<<>>}
  /\ NotRunning

FrameSpec == InitFrame /\ [][NextExample]_vars

\* the bill without the field
without(bill, key) == [k \in DOMAIN bill \ {key} |-> bill[k]]

\* C24: score_bill leaves every field of a bill but threat_score,
\* threat_level, threat_label, concerns and positives as it was, the
\* collection find_related_bills writes differs from the one it loaded in
\* related_bills only, and both scripts keep the bills and their order.
C24_Frame ==
  /\ pc = "score" => Len(bills) = Len(stored)
  /\ \A i \in ScoredBills : text_only(bills[i]) = text_only(stored[i])
  /\ pc = "save" =>
       /\ Len(bills) = Len(stored)
       /\ \A i \in DOMAIN bills :
            without(bills[i], "related_bills") = without(stored[i], "related_bills")

\* score_bill has passed a bill that find_related_bills had given a list
\* before
C24_Witness ==
  \E i \in ScoredBills :
    /\ "related_bills" \in DOMAIN stored[i]
    /\ stored[i].related_bills # <<>>
    /\ stored[i].description # ""

---------------------------------------------------------------------------
(* The relation loop as a set of independent steps.                        *)

\* the list the relation step of bills[i] gives in the current state
related_of(i) == get(relate_bill(i).bill, "related_bills")

\* C25: a step of the relation loop writes the list of its own bill and
\* nothing else that the steps share: the indices, the clusters and the
\* other bills stay as they were; and the list of a bill is the one its step
\* gives whatever other bills have been processed.
C25_IndependentSteps ==
  [][(pc = "relate" /\ pc' = "relate") =>
       /\ by_number' = by_number
       /\ by_topic' = by_topic
       /\ clusters' = clusters
       /\ \A j \in DOMAIN bills \ {idx} : bills'[j] = bills[j]
       /\ without(bills'[idx], "related_bills") = without(bills[idx], "related_bills")
       /\ bills'[idx].related_bills = related_of(idx)]_vars

---------------------------------------------------------------------------
(* The write of the collection.                                            *)

\* C26: the stored collection changes only by the write at the end of a
\* run, after the loop has passed every bill, and becomes the whole
\* annotated collection; a run that ends with return 1 or with an error
\* leaves the stored collection as it was.
C26_WriteAfterAnnotate ==
  [][/\ stored' # stored =>
          \/ /\ pc = "score"
             /\ idx > Len(bills)
             /\ \A i \in DOMAIN bills : "threat_score" \in DOMAIN bills[i]
             /\ stored' = bills
          \/ /\ pc = "save"
             /\ idx > Len(bills)
             /\ \A i \in DOMAIN bills : "related_bills" \in DOMAIN bills[i]
             /\ stored' = bills
     /\ outcome' \in {"return 1", AttributeError, "KeyError"} => stored' = stored
    ]_vars

\* a run has stopped with an error and the stored bills hold no field of
\* either script
C26_Witness ==
  /\ outcome = "KeyError"
  /\ Len(stored) = 2
  /\ \A i \in DOMAIN stored :
       DOMAIN stored[i] \cap {"related_bills", "threat_score"} = {}

---------------------------------------------------------------------------
(* Corpora for what a list may hold: bills of both chambers inside and     *)
(* outside the window, a bill of another prefix and a bill whose number     *)
(* does not parse.                                                         *)

MaxSoundBills == 3

SOUND_POOL ==
  << [bill_number |-> "HB 20", title |-> "Carbon tax"],
     [bill_number |-> "SB 31", title |-> "Carbon tax credit rebate"],
     [bill_number |-> "SB 25", title |-> "Carbon tax credit rebate"],
     [bill_number |-> "SB 20", title |-> "State parks"],
     [bill_number |-> "HJR 7", title |-> "State parks"],
     [bill_number |-> "1234", title |-> "Carbon tax"] >>

InitSound ==
  /\ file_exists \in BOOLEAN
  /\ stored \in IF file_exists
                THEN Corpora(SOUND_POOL, MaxSoundBills) ELSE {<<>>}
  /\ NotRunning

SoundSpec == InitSound /\ [][NextRelator]_vars

\* bills[j] is indexed under the opposite prefix of bills[i], which is HB or
\* SB, with a number at most 10 away
NearCompanion(i, j) ==
  /\ prefix_of(bills[i]) \in {"HB", "SB"}
  /\ \E M \in (num_of(bills[i]) - 10)..(num_of(bills[i]) + 10) :
       /\ <<opposite(prefix_of(bills[i])), M>> \in DOMAIN by_number
       /\ by_number[<<opposite(prefix_of(bills[i])), M>>] = j

\* C27: every entry of a bill's related_bills is the number of another bill
\* of the collection that is indexed under the opposite prefix, HB or SB,
\* with a number at most 10 away, or has the bill's topic and a title
\* similarity above 0.5; a bill of another prefix whose title has no topic
\* gets the empty list.
C27_Soundness ==
  /\ \A i \in RelatedNowBills :
       \A x \in Range(bills[i].related_bills) :
         \E j \in DOMAIN bills \ {i} :
           /\ number_of(bills[j]) = x
           /\ NearCompanion(i, j) \/ TopicHitOf(i, j)
  /\ \A i \in RelatedNowBills :
       ( /\ prefix_of(bills[i]) \notin {"HB", "SB"}
         /\ find_topic(title_of(bills[i])) = None )
       => bills[i].related_bills = <<>>
  /\ Finished =>
       \A i \in DOMAIN stored :
         ( /\ prefix_of(stored[i]) \notin {"HB", "SB"}
           /\ find_topic(title_of(stored[i])) = None )
         => stored[i].related_bills = <<>>

\* a run has written a list with a companion and a topic hit, next to the
\* empty list of a bill of another prefix with no topic
C27_Witness ==
  /\ Finished
  /\ \E i, j \in DOMAIN stored :
       /\ Len(stored[i].related_bills) >= 1
       /\ prefix_of(stored[j]) = "HJR"
       /\ find_topic(title_of(stored[j])) = None
       /\ stored[j].related_bills = <<>>

\* no two bills of the stored collection share a bill_number or a parsed
\* (prefix, number), and every parsed number is positive
Unambiguous ==
  /\ \A i, j \in DOMAIN stored :
       i # j =>
         /\ number_of(stored[i]) # number_of(stored[j])
         /\ Parses(stored[i]) => own_key(stored[i]) # own_key(stored[j])
  /\ \A i \in DOMAIN stored : Parses(stored[i]) => num_of(stored[i]) > 0

listed(i, j) == number_of(stored[j]) \in Range(stored[i].related_bills)

\* C28: after a run over bills with bill_numbers and parsed keys of their
\* own and positive numbers, two bills whose lists are shorter than 10
\* either list each other or do not list each other.
C28_Symmetry ==
  (Finished /\ Unambiguous) =>
    \A i, j \in DOMAIN stored :
      ( /\ Len(stored[i].related_bills) < 10
        /\ Len(stored[j].related_bills) < 10 )
      => (listed(i, j) <=> listed(j, i))

\* a run has written two bills that list each other as companions at
\* different numbers, and a third bill that neither lists
C28_Witness ==
  /\ Finished
  /\ Unambiguous
  /\ \E i, j, k \in DOMAIN stored :
       /\ prefix_of(stored[i]) = "HB"
       /\ prefix_of(stored[j]) = "SB"
       /\ num_of(stored[i]) # num_of(stored[j])
       /\ listed(i, j) /\ listed(j, i)
       /\ ~listed(i, k) /\ ~listed(k, i)
       /\ k \notin {i, j}

---------------------------------------------------------------------------
(* Pairs of bills whose texts match more and fewer rules.                  *)

MaxMonoBills == 2

MONO_TITLES ==
  {"Parks", "Study", "Ban", "Ban study", "Ban bond", "Tax cut",
   "Tax cut public record", "Ban tax cut"}

MONO_POOL ==
  {[bill_number |-> "HB 1", title |-> title, description |-> "",
    last_action |-> ""] : title \in MONO_TITLES}

InitMono ==
  /\ file_exists \in BOOLEAN
  /\ stored \in IF file_exists
                THEN UNION {[1..k -> MONO_POOL] : k \in 0..MaxMonoBills}
                ELSE {<<>>}
  /\ NotRunning

NextMono == score_all_bills

MonoSpec == InitMono /\ [][NextMono]_vars

\* the rules of the two negative tables that match the text of stored[i]
negatives(i) ==
  <<matching(RED_FLAGS, analysis_text(stored[i])),
    matching(ORANGE_FLAGS, analysis_text(stored[i]))>>

positives(i) == matching(GREEN_FLAGS, analysis_text(stored[i]))

MoreNegatives(i, j) ==
  /\ negatives(i)[1] \subseteq negatives(j)[1]
  /\ negatives(i)[2] \subseteq negatives(j)[2]

severity(level) ==
  CASE level = "critical" -> 5
    [] level = "high" -> 4
    [] level = "moderate" -> 3
    [] level = "low" -> 2
    [] level = "beneficial" -> 1
    [] OTHER -> 0

\* C29: of two bills with a non-empty title or description, the one that
\* matches all negative rules of the other and the same positive rules has
\* a score and a level that are not lower, and the one that matches the same
\* negative rules and all positive rules of the other has a score and a
\* level that are not higher.
C29_Monotonicity ==
  \A i, j \in ScoredBills :
    (HasText(stored[i]) /\ HasText(stored[j])) =>
      /\ (MoreNegatives(i, j) /\ positives(i) = positives(j)) =>
           /\ bills[j].threat_score >= bills[i].threat_score
           /\ severity(bills[j].threat_level) >= severity(bills[i].threat_level)
      /\ (negatives(i) = negatives(j) /\ positives(i) \subseteq positives(j)) =>
           /\ bills[j].threat_score <= bills[i].threat_score
           /\ severity(bills[j].threat_level) <= severity(bills[i].threat_level)

\* two scored bills of which the second matches one negative rule more and
\* is more severe, and two of which the second matches one positive rule
\* more and is less severe
C29_Witness ==
  \E i, j \in ScoredBills :
    /\ HasText(stored[i]) /\ HasText(stored[j])
    /\ MoreNegatives(i, j) /\ negatives(i) # negatives(j)
    /\ negatives(i)[1] # {}
    /\ positives(i) = positives(j)
    /\ severity(bills[j].threat_level) > severity(bills[i].threat_level)

---------------------------------------------------------------------------
(* The evidence of bills without title and description.                    *)

negative_labels(bill) ==
  matched_labels(RED_FLAGS, analysis_text(bill))
    \cup matched_labels(ORANGE_FLAGS, analysis_text(bill))

positive_labels(bill) == matched_labels(GREEN_FLAGS, analysis_text(bill))

\* the list holds labels of the set, as many as the set has, up to 3
Records(list, S) ==
  /\ Range(list) \subseteq S
  /\ Len(list) = Min(Cardinality(S), 3)
  /\ Cardinality(Range(list)) = Len(list)

\* C30: a bill with empty title and description whose last_action matches a
\* rule leaves score_bill with score 0, level unknown and label Insufficient
\* Data, and with the labels of the matched rules in concerns and in
\* positives.
C30_UnknownEvidence ==
  \A i \in ScoredBills :
    ( /\ ~HasText(stored[i])
      /\ negative_labels(stored[i]) \cup positive_labels(stored[i]) # {} )
    => /\ bills[i].threat_score = 0
       /\ bills[i].threat_level = "unknown"
       /\ bills[i].threat_label = "Insufficient Data"
       /\ negative_labels(stored[i]) # {} =>
            Records(evidence(bills[i], "concerns"), negative_labels(stored[i]))
       /\ positive_labels(stored[i]) # {} =>
            Records(evidence(bills[i], "positives"), positive_labels(stored[i]))

\* a scored bill without title and description that holds a concern and a
\* positive from its last_action
C30_Witness ==
  \E i \in ScoredBills :
    /\ ~HasText(stored[i])
    /\ bills[i].threat_level = "unknown"
    /\ evidence(bills[i], "concerns") # <<>>
    /\ evidence(bills[i], "positives") # <<>>
    /\ "threat_score" \notin DOMAIN stored[i]

=============================================================================
